---- MODULE Spec2Model ----
(***************************************************************************)
(* Model of aws/hhvm1/lambdas/activities.py: the Activity classes that a   *)
(* workflow engine consults (should_run, needs_ec2_worker, ec2_params,     *)
(* task_env), the external state they query (build statuses, the source    *)
(* bucket, the container registry, tagged EC2 instances) and the           *)
(* check-then-launch sequence of the caller.                               *)
(***************************************************************************)
EXTENDS FiniteSets, Integers, Sequences, TLC

VARIABLES
  statuses,      \* build status of every platform of the version being released
  s3_keys,       \* the source bucket: whether it can be listed, and its keys
  docker_tags,   \* registry repository -> what a request for its tags gets
  instances,     \* EC2 instances: sequence of [tags, state, by, for]
  call,          \* the last direct call of a function or method and its outcome
  inv            \* the caller's invocations: 1..NumInvocations -> record

vars == <<statuses, s3_keys, docker_tags, instances, call, inv>>

\* ------------------------------------------------------------------ bounds
NumInvocations == 2
MaxInstances == 2

\* ------------------------------------------------- Python values and results
None == "None"

\* Python truthiness of a str-or-None attribute: None and '' are falsy.
Truthy(x) == x /= None /\ x /= ""

Return(v) == [kind |-> "return", value |-> v]
Raise(m) == [kind |-> "raise", msg |-> m]
NoCall == [fn |-> "none"]

\* dict.update(): keys of u replace or extend those of d.
Update(d, u) ==
  [k \in (DOMAIN d) \cup (DOMAIN u) |-> IF k \in DOMAIN u THEN u[k] ELSE d[k]]

\* A dict comprehension {k: v for k, v in d.items() if k in keep}.
Filter(d, keep) == [k \in (DOMAIN d) \cap keep |-> d[k]]

\* ------------------------------------------------ the module "common" (world)
LinuxPlatforms == {"ubuntu-18.04", "debian-9"}
SourcePlatforms == {"source", "source_gpg"}

\* common.Config.macos_versions: platform name -> macOS version name.
macos_versions ==
  [p \in {"macos-high_sierra", "macos-mojave"} |->
     IF p = "macos-high_sierra" THEN "high_sierra" ELSE "mojave"]

Platforms == LinuxPlatforms \cup (DOMAIN macos_versions) \cup SourcePlatforms

Status == {"not_built", "built_not_published", "succeeded"}
Absent == "absent"

ReleaseVersions == {"4.0.1"}
NightlyVersions == {"2019.01.15"}
Versions == ReleaseVersions \cup NightlyVersions

is_linux(p) == p \in LinuxPlatforms
is_nightly(v) == v \in NightlyVersions

\* common.build_statuses(version): the dict platform -> status; a platform
\* with no record is not a key of the dict.
build_statuses(st) ==
  [p \in {q \in DOMAIN st : st[q] /= Absent} |-> st[p]]

\* common.build_status(version, platform): with no record nothing is built.
build_status(st, p) == IF st[p] = Absent THEN "not_built" ELSE st[p]

\* common.env_for_version(version): bucket and path of the source tarball.
env_for_version(v) ==
  [S3_BUCKET |-> "hhvm-downloads", S3_PATH |-> <<"source", v, "tar.gz">>]

\* Keys that list_objects(Prefix = S3_PATH) can return for version v: the
\* tarball itself and a longer key with the same prefix.
KeysWithPrefix(v) ==
  {env_for_version(v).S3_PATH, env_for_version(v).S3_PATH \o <<"sig">>}
AllKeys == UNION {KeysWithPrefix(v) : v \in Versions}

IsPrefix(s, t) == Len(s) <= Len(t) /\ SubSeq(t, 1, Len(s)) = s

\* The source bucket: whether S3 answers a listing (boto3 raises on an
\* error), and the keys of its objects.
Bucket == [ok : BOOLEAN, keys : SUBSET AllKeys]
NoKeys == [ok |-> TRUE, keys |-> {}]

\* boto3.client('s3').list_objects(Bucket, Prefix).get('Contents', []), or
\* the error that the client raises.
list_objects(bucket, prefix) ==
  IF bucket.ok
  THEN Return({k \in bucket.keys : IsPrefix(prefix, k)})
  ELSE Raise("ClientError")

DockerRepos == {"hhvm", "hhvm-proxygen"}

\* What the registry has for a repository: whether it answers the request for
\* the tags (urlopen raises on an HTTP error), and the names of the tags.
Registry == [ok : BOOLEAN, names : SUBSET Versions]

url(path) == <<"https://raw.githubusercontent.com/hhvm/packaging/master", path>>
fetch(path) == <<"contents of", url(path)>>
format_env(env) == [k \in DOMAIN env |-> <<"export", k, env[k]>>]

\* common.fake_ec2(event)
fake_ec2(event) == event.fake_ec2

\* ------------------------------------------------------------ the classes
ConcreteClasses ==
  {"MakeSourceTarball", "MakeBinaryPackage", "PublishBinaryPackages",
   "PublishSourceTarball", "PublishDockerImages", "BuildAndPublishMacOS"}

\* The class attributes (Activity: lines 16-20; the subclasses override them).
ClassAttrs(cls) ==
  CASE cls = "MakeSourceTarball" ->
         [ec2_iam_arn |-> "arn:aws:iam::223121549624:instance-profile/hhvm-source-tarball-builder",
          activity_arn |-> "arn:aws:states:us-west-2:223121549624:activity:hhvm-make-source-tarball",
          script_name |-> "make-source-tarball.sh",
          init_script |-> None]
    [] cls = "MakeBinaryPackage" ->
         [ec2_iam_arn |-> "arn:aws:iam::223121549624:instance-profile/hhvm-binary-package-builder",
          activity_arn |-> "arn:aws:states:us-west-2:223121549624:activity:hhvm-make-binary-package",
          script_name |-> "make-binary-package.sh",
          init_script |-> None]
    [] cls = "PublishBinaryPackages" ->
         [ec2_iam_arn |-> "arn:aws:iam::223121549624:instance-profile/hhvm-repo-builders",
          activity_arn |-> "arn:aws:states:us-west-2:223121549624:activity:hhvm-publish-binary-packages",
          script_name |-> "update-repos.sh",
          init_script |-> "aws/hhvm1/worker/init/update-repos.sh"]
    [] cls = "PublishSourceTarball" ->
         [ec2_iam_arn |-> "arn:aws:iam::223121549624:instance-profile/hhvm-source-tarball-builder",
          activity_arn |-> "arn:aws:states:us-west-2:223121549624:activity:hhvm-publish-source-tarball",
          script_name |-> "publish-release-source.sh",
          init_script |-> None]
    [] cls = "PublishDockerImages" ->
         [ec2_iam_arn |-> "arn:aws:iam::223121549624:instance-profile/hhvm-repo-builders",
          activity_arn |-> "arn:aws:states:us-west-2:223121549624:activity:hhvm-publish-docker-images",
          script_name |-> "update-repos.sh",
          init_script |-> None]
    [] cls = "BuildAndPublishMacOS" ->
         [ec2_iam_arn |-> "arn:aws:iam::223121549624:instance-profile/hhvm-macos-builds-triggerer",
          activity_arn |-> "arn:aws:states:us-west-2:223121549624:activity:hhvm-build-and-publish-macos",
          script_name |-> "trigger-macos-builds.sh",
          init_script |-> None]
    [] OTHER ->
         [ec2_iam_arn |-> None, activity_arn |-> None,
          script_name |-> None, init_script |-> None]

\* Activity.__init__(event): the object, with the attributes its class gives it.
NewActivity(cls, event) ==
  [cls |-> cls,
   ec2_iam_arn |-> ClassAttrs(cls).ec2_iam_arn,
   activity_arn |-> ClassAttrs(cls).activity_arn,
   script_name |-> ClassAttrs(cls).script_name,
   init_script |-> ClassAttrs(cls).init_script,
   event |-> event,
   fake_ec2 |-> fake_ec2(event)]

version(self) == self.event.version
platform(self) == self.event.platform

\* -------------------------------------------------- class Activity (base)
Activity_worker_env(self) == << >>
Activity_task_env(self) == Return(<< >>)
Activity_needs_ec2_worker(self, insts) == TRUE

\* The value of tag `key` of an instance (None when it carries no such tag).
TagValue(inst, key) ==
  IF \E t \in DOMAIN inst.tags : inst.tags[t].Key = key
  THEN inst.tags[CHOOSE t \in DOMAIN inst.tags : inst.tags[t].Key = key].Value
  ELSE None

\* The filter of instances.filter(...): tag:ActivityArn and instance-state-name.
MatchesFilter(inst, arn) ==
  /\ TagValue(inst, "ActivityArn") = arn
  /\ inst.state \in {"pending", "running"}

has_ec2_workers(self, insts) ==
  \E k \in DOMAIN insts : MatchesFilter(insts[k], self.activity_arn)

BuildAndPublishMacOS_worker_env(self) == [SKIP_SEND_TASK_SUCCESS |-> "1"]

worker_env(self) ==
  IF self.cls = "BuildAndPublishMacOS"
  THEN BuildAndPublishMacOS_worker_env(self)
  ELSE Activity_worker_env(self)

\* A guard that forgets script_name.
MissingConfig_NoScript(self) ==
  \/ ~Truthy(self.ec2_iam_arn)
  \/ ~Truthy(self.activity_arn)

MissingConfig(self) ==
  \/ ~Truthy(self.ec2_iam_arn)
  \/ ~Truthy(self.activity_arn)
  \/ ~Truthy(self.script_name)

Activity_ec2_params(self) ==
  IF MissingConfig(self)
  THEN Raise("missing config in " \o self.cls)
  ELSE
    LET script_url == url(IF self.fake_ec2
                          THEN "aws/hhvm1/worker/dummy-task.sh"
                          ELSE "aws/userdata/" \o self.script_name)
        init_url == IF Truthy(self.init_script) THEN url(self.init_script) ELSE ""
    IN Return(
      [ImageId |-> "ami-6e1a0117",
       MaxCount |-> 1,
       MinCount |-> 1,
       InstanceType |-> "t2.micro",
       SecurityGroups |-> <<"hhvm-binary-package-builders">>,
       InstanceInitiatedShutdownBehavior |-> "terminate",
       IamInstanceProfile |-> [Arn |-> self.ec2_iam_arn],
       KeyName |-> "hhvm-package-builders",
       TagSpecifications |-> <<
         [ResourceType |-> "instance",
          Tags |-> <<
            [Key |-> "Name", Value |-> "ww-0-" \o self.cls],
            [Key |-> "ActivityArn", Value |-> self.activity_arn]
          >>]
       >>,
       UserData |->
         [ACTIVITY_ARN |-> self.activity_arn,
          SCRIPT_URL |-> script_url,
          INIT_URL |-> init_url,
          env |-> format_env(worker_env(self)),
          worker |-> fetch("aws/hhvm1/worker/worker.sh")]])

\* The root volume every override asks for, of `size` GB.
RootVolume(size) ==
  <<[DeviceName |-> "/dev/sda1",
     Ebs |-> [DeleteOnTermination |-> TRUE,
              VolumeSize |-> size,
              VolumeType |-> "gp2"]]>>

MakeSourceTarball_ec2_params(self) ==
  LET params == Activity_ec2_params(self)
  IN IF params.kind = "raise" THEN params
     ELSE Return(Update(params.value,
            [BlockDeviceMappings |-> RootVolume(16)]))

MakeBinaryPackage_ec2_params(self) ==
  LET params == Activity_ec2_params(self)
  IN IF params.kind = "raise" THEN params
     ELSE Return(Update(params.value,
            [InstanceType |-> "m5.2xlarge",
             BlockDeviceMappings |-> RootVolume(95)]))

\* An override that rebuilds the tags and forgets the ActivityArn tag.
PublishBinaryPackages_ec2_params_Retag(self) ==
  LET params == Activity_ec2_params(self)
  IN IF params.kind = "raise" THEN params
     ELSE Return(Update(params.value,
            [Placement |-> [AvailabilityZone |-> "us-west-2a"],
             BlockDeviceMappings |-> RootVolume(100),
             TagSpecifications |-> <<
               [ResourceType |-> "instance",
                Tags |-> <<[Key |-> "Name", Value |-> "ww-0-" \o self.cls]>>]
             >>]))

PublishBinaryPackages_ec2_params(self) ==
  LET params == Activity_ec2_params(self)
  IN IF params.kind = "raise" THEN params
     ELSE Return(Update(params.value,
            [Placement |-> [AvailabilityZone |-> "us-west-2a"],
             BlockDeviceMappings |-> RootVolume(100)]))

\* Method resolution of self.ec2_params().
ec2_params(self) ==
  CASE self.cls = "MakeSourceTarball" -> MakeSourceTarball_ec2_params(self)
    [] self.cls = "MakeBinaryPackage" -> MakeBinaryPackage_ec2_params(self)
    [] self.cls = "PublishBinaryPackages" -> PublishBinaryPackages_ec2_params(self)
    [] OTHER -> Activity_ec2_params(self)

PublishBinaryPackages_needs_ec2_worker(self, insts) ==
  ~has_ec2_workers(self, insts)

\* Method resolution of self.needs_ec2_worker().
needs_ec2_worker(self, insts) ==
  IF self.cls = "PublishBinaryPackages"
  THEN PublishBinaryPackages_needs_ec2_worker(self, insts)
  ELSE Activity_needs_ec2_worker(self, insts)

\* ------------------------------------------------------------- should_run
MakeSourceTarball_should_run(self, keys) ==
  LET env == env_for_version(version(self))
      r == list_objects(keys, env.S3_PATH)
  IN IF r.kind = "raise" THEN r
     ELSE Return(~(\E obj \in r.value : obj = env.S3_PATH))

\* A lookup in the dict of statuses, which has no entry for an unknown platform.
MakeBinaryPackage_should_run_Lookup(self, st) ==
  IF platform(self) \in DOMAIN build_statuses(st)
  THEN Return(build_statuses(st)[platform(self)] = "not_built")
  ELSE Raise("KeyError")

\* A package counts as to be built until it is published.
MakeBinaryPackage_should_run_Unpublished(self, st) ==
  Return(build_status(st, platform(self)) /= "succeeded")

MakeBinaryPackage_should_run(self, st) ==
  Return(build_status(st, platform(self)) = "not_built")

\* The test for publishable packages made before the test for unbuilt ones.
any_unpublished_PublishFirst(d) ==
  IF \E p \in DOMAIN d : d[p] = "built_not_published"
  THEN Return(TRUE)
  ELSE IF \E p \in DOMAIN d : d[p] = "not_built"
  THEN Raise([text |-> "cannot publish because there are unbuilt packages: ",
              platforms |-> {p \in DOMAIN d : d[p] = "not_built"}])
  ELSE Return(FALSE)

any_unpublished(d) ==
  IF \E p \in DOMAIN d : d[p] = "not_built"
  THEN Raise([text |-> "cannot publish because there are unbuilt packages: ",
              platforms |-> {p \in DOMAIN d : d[p] = "not_built"}])
  ELSE Return(\E p \in DOMAIN d : d[p] = "built_not_published")

\* The statuses of all platforms, not of the Linux ones only.
PublishBinaryPackages_should_run_Unfiltered(self, st) ==
  any_unpublished(build_statuses(st))

PublishBinaryPackages_should_run(self, st) ==
  any_unpublished(
    Filter(build_statuses(st), {p \in Platforms : is_linux(p)}))

\* The operands of `and` swapped: the statuses are read for a nightly too.
PublishSourceTarball_should_run_Swapped(self, st) ==
  LET r == any_unpublished(Filter(build_statuses(st), {"source", "source_gpg"}))
  IN IF r.kind = "raise" THEN r
     ELSE IF r.value THEN Return(~is_nightly(version(self)))
     ELSE Return(FALSE)

PublishSourceTarball_should_run(self, st) ==
  IF is_nightly(version(self))
  THEN Return(FALSE)
  ELSE any_unpublished(Filter(build_statuses(st), {"source", "source_gpg"}))

\* One HTTP request: the names of the repository's tags, or the error that
\* request.urlopen raises.
PublishDockerImages_docker_tags(tags, repo) ==
  IF tags[repo].ok THEN Return(tags[repo].names) ELSE Raise("HTTPError")

\* should_run() between its two requests: the left operand of `or` was
\* False, the right operand is evaluated next.
Reading == [kind |-> "reading"]

\* The left operand of `or`, on the registry as the first request finds it:
\* True ends the call without a second request.
PublishDockerImages_should_run(self, tags) ==
  LET r == PublishDockerImages_docker_tags(tags, "hhvm")
  IN IF r.kind = "raise" THEN r
     ELSE IF version(self) \notin r.value THEN Return(TRUE)
     ELSE Reading

\* The right operand of `or`, on the registry as the second request finds it.
PublishDockerImages_should_run_or(self, tags) ==
  LET r == PublishDockerImages_docker_tags(tags, "hhvm-proxygen")
  IN IF r.kind = "raise" THEN r
     ELSE Return(version(self) \notin r.value)

\* A request that names no macOS platform treated like no request at all.
platforms_to_build_Fallback(self, st) ==
  LET keys == DOMAIN macos_versions
      asked == self.event.buildInput.platforms
      requested == IF {p \in keys : p \in asked} /= {}
                   THEN {p \in keys : p \in asked} ELSE keys
  IN {p \in DOMAIN build_statuses(st) :
        build_statuses(st)[p] /= "succeeded" /\ p \in requested}

platforms_to_build(self, st) ==
  LET keys == DOMAIN macos_versions
      asked == self.event.buildInput.platforms
      requested == IF asked /= {} THEN {p \in keys : p \in asked} ELSE keys
  IN IF requested = {} THEN {}
     ELSE {p \in DOMAIN build_statuses(st) :
             build_statuses(st)[p] /= "succeeded" /\ p \in requested}

BuildAndPublishMacOS_should_run(self, st) ==
  Return(platforms_to_build(self, st) /= {})

BuildAndPublishMacOS_task_env(self, st) ==
  LET platforms == platforms_to_build(self, st)
  IN IF Cardinality(platforms) = Cardinality(DOMAIN macos_versions)
     THEN Return(<< >>)
     ELSE IF Cardinality(platforms) = 1
     THEN Return([PLATFORM |-> macos_versions[CHOOSE p \in platforms : TRUE]])
     ELSE Raise([text |-> "we can only build all platforms or a single platform, but got: ",
                 platforms |-> platforms])

PublishBinaryPackages_task_env(self) == Return([REPOS_ONLY |-> "1"])
PublishDockerImages_task_env(self) == Return([DOCKER_ONLY |-> "1"])

\* Method resolution of self.should_run(), on the external state it queries.
\* PublishDockerImages queries twice: its outcome here may be Reading, and
\* PublishDockerImages_should_run_or ends the call on the state of that time.
should_run(self, st, keys, tags) ==
  CASE self.cls = "MakeSourceTarball" -> MakeSourceTarball_should_run(self, keys)
    [] self.cls = "MakeBinaryPackage" -> MakeBinaryPackage_should_run(self, st)
    [] self.cls = "PublishBinaryPackages" -> PublishBinaryPackages_should_run(self, st)
    [] self.cls = "PublishSourceTarball" -> PublishSourceTarball_should_run(self, st)
    [] self.cls = "PublishDockerImages" -> PublishDockerImages_should_run(self, tags)
    [] self.cls = "BuildAndPublishMacOS" -> BuildAndPublishMacOS_should_run(self, st)

\* Method resolution of self.task_env().
task_env(self, st) ==
  CASE self.cls = "PublishBinaryPackages" -> PublishBinaryPackages_task_env(self)
    [] self.cls = "PublishDockerImages" -> PublishDockerImages_task_env(self)
    [] self.cls = "BuildAndPublishMacOS" -> BuildAndPublishMacOS_task_env(self, st)
    [] OTHER -> Activity_task_env(self)

\* ------------------------------------------------------------- the events
Event(v, p, asked, fake) ==
  [version |-> v, platform |-> p,
   buildInput |-> [platforms |-> asked], fake_ec2 |-> fake]

\* buildInput.platforms as the caller may pass it: nothing, one or all macOS
\* platforms, a platform that is not a macOS one, and a mix.
RequestedPlatforms ==
  {{}, {"macos-mojave"}, DOMAIN macos_versions, {"ubuntu-18.04"},
   {"ubuntu-18.04", "macos-high_sierra"}}

\* ------------------------------------------------------------ initial world
NoStatuses == [p \in Platforms |-> "not_built"]
NoTags == [r \in DockerRepos |-> [ok |-> TRUE, names |-> {}]]
NoOutcome == [kind |-> "none"]
Idle == [pc |-> "idle"]
NoInvocations == [i \in 1..NumInvocations |-> Idle]

\* ---------------------------------------- ec2_params on its own (SpecConfig)
AttrValues == {None, "", "arn:aws:test"}
InitScripts == {None, "", "aws/hhvm1/worker/init/update-repos.sh"}
ConfigEvent(fake) == Event("4.0.1", "ubuntu-18.04", {}, fake)

\* A class of the file (or Activity itself), with init_script as given.
ClassSelf(c, is, fake) ==
  [NewActivity(c, ConfigEvent(fake)) EXCEPT !.init_script = is]

\* A subclass of Activity that sets the required attributes to a, b and c.
SubclassSelf(a, b, c, is, fake) ==
  [NewActivity("Subclass", ConfigEvent(fake)) EXCEPT
     !.ec2_iam_arn = a, !.activity_arn = b, !.script_name = c,
     !.init_script = is]

\* The record of a call of self.ec2_params().
Ec2ParamsCall(self) ==
  [fn |-> "ec2_params", self |-> self, outcome |-> ec2_params(self)]

CallEc2ParamsOfClass(c, is, fake) ==
  /\ call' = Ec2ParamsCall(ClassSelf(c, is, fake))
  /\ UNCHANGED <<statuses, s3_keys, docker_tags, instances, inv>>

CallEc2ParamsOfSubclass(a, b, c, is, fake) ==
  /\ call' = Ec2ParamsCall(SubclassSelf(a, b, c, is, fake))
  /\ UNCHANGED <<statuses, s3_keys, docker_tags, instances, inv>>

InitConfig ==
  /\ statuses = NoStatuses
  /\ s3_keys = NoKeys
  /\ docker_tags = NoTags
  /\ instances = << >>
  /\ call = NoCall
  /\ inv = NoInvocations

NextConfig ==
  \/ \E c \in ConcreteClasses \cup {"Activity"}, is \in InitScripts,
        fake \in BOOLEAN :
       CallEc2ParamsOfClass(c, is, fake)
  \/ \E a \in AttrValues, b \in AttrValues, c \in AttrValues,
        is \in InitScripts, fake \in BOOLEAN :
       CallEc2ParamsOfSubclass(a, b, c, is, fake)

SpecConfig == InitConfig /\ [][NextConfig]_vars

RequiredAttrs == {"ec2_iam_arn", "activity_arn", "script_name"}
LaunchKeys ==
  {"ImageId", "MaxCount", "MinCount", "InstanceType", "SecurityGroups",
   "InstanceInitiatedShutdownBehavior", "IamInstanceProfile", "KeyName",
   "TagSpecifications", "UserData"}

\* C1: ec2_params() raises, and returns no launch configuration, exactly when
\* one of ec2_iam_arn, activity_arn, script_name is None or empty; otherwise it
\* returns a launch configuration; and it never raises for a class of the file,
\* whatever fake_ec2 and init_script are.
C1_RaisesIffMissingConfig ==
  call.fn = "ec2_params" =>
    /\ (call.outcome.kind = "raise") <=>
         (\E a \in RequiredAttrs : call.self[a] \in {None, ""})
    /\ call.outcome.kind \in {"raise", "return"}
    /\ call.outcome.kind = "return" =>
         LaunchKeys \subseteq DOMAIN call.outcome.value
    /\ call.self.cls \in ConcreteClasses => call.outcome.kind = "return"

\* C1 witness: only script_name is unset, and the call raised.
C1_Witness ==
  /\ call.fn = "ec2_params"
  /\ call.self.ec2_iam_arn = "arn:aws:test"
  /\ call.self.activity_arn = "arn:aws:test"
  /\ call.self.script_name = ""
  /\ call.outcome.kind = "raise"

\* ------------------------------------------------------------ EC2 (world)
\* The tags that run_instances(**params) gives the instances it creates.
InstanceTags(params) ==
  IF \E t \in DOMAIN params.TagSpecifications :
       params.TagSpecifications[t].ResourceType = "instance"
  THEN params.TagSpecifications[
         CHOOSE t \in DOMAIN params.TagSpecifications :
           params.TagSpecifications[t].ResourceType = "instance"].Tags
  ELSE << >>

\* boto3 run_instances(**params): n new pending instances, MinCount <= n <=
\* MaxCount. `by` and `for` record the launching class and what it builds.
run_instances(insts, params, self, n) ==
  insts \o [k \in 1..n |->
              [tags |-> InstanceTags(params), state |-> "pending",
               by |-> self.cls,
               for |-> <<version(self), platform(self)>>]]

InstanceRunning(k) ==
  /\ instances[k].state = "pending"
  /\ instances' = [instances EXCEPT ![k].state = "running"]
  /\ UNCHANGED <<statuses, s3_keys, docker_tags, call, inv>>

\* InstanceInitiatedShutdownBehavior = terminate: the worker shuts down.
InstanceTerminated(k) ==
  /\ instances[k].state \in {"pending", "running"}
  /\ instances' = [instances EXCEPT ![k].state = "terminated"]
  /\ UNCHANGED <<statuses, s3_keys, docker_tags, call, inv>>

\* EC2 forgets a terminated instance.
InstanceGone(k) ==
  /\ instances[k].state = "terminated"
  /\ instances' = [j \in 1..(Len(instances) - 1) |->
                     IF j < k THEN instances[j] ELSE instances[j + 1]]
  /\ UNCHANGED <<statuses, s3_keys, docker_tags, call, inv>>

EC2 ==
  \E k \in DOMAIN instances : InstanceRunning(k) \/ InstanceTerminated(k)

\* ------------------------- ec2_params and the instances it makes (SpecLaunch)
CallEc2ParamsToLaunch(c, fake) ==
  /\ call' = Ec2ParamsCall(NewActivity(c, ConfigEvent(fake)))
  /\ UNCHANGED <<statuses, s3_keys, docker_tags, instances, inv>>

\* The caller hands the configuration ec2_params() returned to run_instances.
LaunchReturned ==
  /\ call.fn = "ec2_params"
  /\ call.outcome.kind = "return"
  /\ Len(instances) < MaxInstances
  /\ \E n \in call.outcome.value.MinCount .. call.outcome.value.MaxCount :
       /\ Len(instances) + n <= MaxInstances
       /\ instances' = run_instances(instances, call.outcome.value, call.self, n)
  /\ call' = NoCall
  /\ UNCHANGED <<statuses, s3_keys, docker_tags, inv>>

NextLaunch ==
  \/ \E c \in ConcreteClasses \cup {"Activity"}, fake \in BOOLEAN :
       CallEc2ParamsToLaunch(c, fake)
  \/ LaunchReturned
  \/ EC2
  \/ \E k \in DOMAIN instances : InstanceGone(k)

SpecLaunch == InitConfig /\ [][NextLaunch]_vars

OverriddenKeys == {"InstanceType", "BlockDeviceMappings", "Placement"}

\* C10: every configuration ec2_params() returns asks for exactly one instance
\* and tags it ActivityArn = the activity_arn has_ec2_workers() filters on; an
\* override differs from the base configuration in InstanceType,
\* BlockDeviceMappings and Placement only; and a pending or running instance is
\* found by has_ec2_workers() of the activity that launched it and of no other.
C10_OneTaggedInstance ==
  /\ (call.fn = "ec2_params" /\ call.outcome.kind = "return") =>
       LET params == call.outcome.value
           base == Activity_ec2_params(call.self).value
       IN /\ params.MinCount = 1
          /\ params.MaxCount = 1
          /\ \E t \in DOMAIN InstanceTags(params) :
               /\ InstanceTags(params)[t].Key = "ActivityArn"
               /\ InstanceTags(params)[t].Value = call.self.activity_arn
          /\ has_ec2_workers(call.self, run_instances(<< >>, params, call.self, 1))
          /\ DOMAIN base \subseteq DOMAIN params
          /\ (DOMAIN params) \ (DOMAIN base) \subseteq OverriddenKeys
          /\ \A key \in (DOMAIN base) \ OverriddenKeys : params[key] = base[key]
  /\ \A k \in DOMAIN instances :
       \A c \in ConcreteClasses, fake \in BOOLEAN :
         has_ec2_workers(NewActivity(c, ConfigEvent(fake)), <<instances[k]>>)
           <=> (c = instances[k].by
                  /\ instances[k].state \in {"pending", "running"})

\* C10 witness: instances of two different activities are pending or running
\* while ec2_params() of an overriding class has just returned.
C10_Witness ==
  /\ call.fn = "ec2_params"
  /\ call.self.cls = "PublishBinaryPackages"
  /\ call.outcome.kind = "return"
  /\ \E j, k \in DOMAIN instances :
       /\ instances[j].by = "PublishBinaryPackages"
       /\ instances[k].by = "MakeBinaryPackage"
       /\ instances[j].state = "running"
       /\ instances[k].state = "pending"

\* ------------------------- the decision functions on their own (SpecDecide)
CallAnyUnpublished ==
  /\ call = NoCall
  /\ call' = [fn |-> "any_unpublished", args |-> build_statuses(statuses),
              outcome |-> any_unpublished(build_statuses(statuses))]
  /\ UNCHANGED <<statuses, s3_keys, docker_tags, instances, inv>>

\* should_run() up to its return, its raise, or the wait for the second
\* request of PublishDockerImages. `reads` logs what each request to the
\* registry got.
CallShouldRun(c, v, p, asked) ==
  /\ call = NoCall
  /\ LET self == NewActivity(c, Event(v, p, asked, FALSE))
     IN call' = [fn |-> "should_run", self |-> self,
                 reads |-> IF c = "PublishDockerImages"
                           THEN <<PublishDockerImages_docker_tags(docker_tags, "hhvm")>>
                           ELSE << >>,
                 outcome |-> should_run(self, statuses, s3_keys, docker_tags)]
  /\ UNCHANGED <<statuses, s3_keys, docker_tags, instances, inv>>

\* The second request of PublishDockerImages.should_run() and its return.
CallShouldRunOr ==
  /\ call.fn = "should_run"
  /\ call.outcome = Reading
  /\ call' = [call EXCEPT
                !.reads = Append(@, PublishDockerImages_docker_tags(
                                      docker_tags, "hhvm-proxygen")),
                !.outcome = PublishDockerImages_should_run_or(call.self,
                                                              docker_tags)]
  /\ UNCHANGED <<statuses, s3_keys, docker_tags, instances, inv>>

\* The outside world while should_run() waits between its requests: a tag is
\* pushed to a repository or deleted from it.
RegistryTag(repo, v) ==
  /\ call.fn = "should_run"
  /\ call.outcome = Reading
  /\ docker_tags' = [docker_tags EXCEPT ![repo].names =
                       IF v \in @ THEN @ \ {v} ELSE @ \cup {v}]
  /\ UNCHANGED <<statuses, s3_keys, instances, call, inv>>

\* The outside world while should_run() waits: the registry starts or stops
\* answering requests for a repository.
RegistryAnswers(repo) ==
  /\ call.fn = "should_run"
  /\ call.outcome = Reading
  /\ docker_tags' = [docker_tags EXCEPT ![repo].ok = ~@]
  /\ UNCHANGED <<statuses, s3_keys, instances, call, inv>>

CallPlatformsToBuild(v, p, asked) ==
  /\ call = NoCall
  /\ LET self == NewActivity("BuildAndPublishMacOS", Event(v, p, asked, FALSE))
     IN call' = [fn |-> "platforms_to_build", self |-> self,
                 outcome |-> Return(platforms_to_build(self, statuses))]
  /\ UNCHANGED <<statuses, s3_keys, docker_tags, instances, inv>>

\* Each behaviour is one call, begun on any record of build statuses with an
\* empty bucket and registry, or on any bucket and registry with nothing
\* built. The build statuses and the bucket are queried once; the registry is
\* queried twice and changes in between.
InitDecide ==
  /\ \/ /\ statuses \in [Platforms -> Status \cup {Absent}]
        /\ s3_keys = NoKeys
        /\ docker_tags = NoTags
     \/ /\ statuses = NoStatuses
        /\ s3_keys \in Bucket
        /\ docker_tags \in [DockerRepos -> Registry]
  /\ instances = << >>
  /\ call = NoCall
  /\ inv = NoInvocations

NextDecide ==
  \/ CallAnyUnpublished
  \/ \E c \in ConcreteClasses, v \in Versions, p \in LinuxPlatforms,
        asked \in RequestedPlatforms :
       CallShouldRun(c, v, p, asked)
  \/ CallShouldRunOr
  \/ \E repo \in DockerRepos, v \in Versions : RegistryTag(repo, v)
  \/ \E repo \in DockerRepos : RegistryAnswers(repo)
  \/ \E v \in Versions, p \in LinuxPlatforms, asked \in RequestedPlatforms :
       CallPlatformsToBuild(v, p, asked)

SpecDecide == InitDecide /\ [][NextDecide]_vars

\* The platforms of `among` that the record of statuses gives status s.
WithStatus(among, s) == {p \in among : statuses[p] = s}

\* C2: any_unpublished(statuses) raises exactly when some status is
\* 'not_built', whatever the other statuses are; otherwise it returns whether
\* some status is 'built_not_published'; it returns False for the empty
\* mapping and for a mapping of other statuses only.
C2_AnyUnpublished ==
  call.fn = "any_unpublished" =>
    LET d == call.args
        unbuilt == Cardinality({p \in DOMAIN d : d[p] = "not_built"})
        waiting == Cardinality({p \in DOMAIN d : d[p] = "built_not_published"})
    IN /\ (call.outcome.kind = "raise") <=> (unbuilt >= 1)
       /\ unbuilt = 0 => call.outcome = Return(waiting >= 1)
       /\ DOMAIN d = {} => call.outcome = Return(FALSE)
       /\ (\A p \in DOMAIN d : d[p] = "succeeded") => call.outcome = Return(FALSE)

\* C2 witness: a mapping with a 'not_built' and a 'built_not_published' entry
\* made the call raise.
C2_Witness ==
  /\ call.fn = "any_unpublished"
  /\ \E p, q \in DOMAIN call.args :
       call.args[p] = "not_built" /\ call.args[q] = "built_not_published"
  /\ call.outcome.kind = "raise"

\* The condition under which PublishBinaryPackages cannot publish.
UnbuiltLinux == WithStatus(LinuxPlatforms, "not_built") /= {}
\* The condition under which PublishSourceTarball cannot publish.
UnbuiltSource == WithStatus(SourcePlatforms, "not_built") /= {}

\* C4 as stated: should_run() of every activity ends with True or False and
\* never with an error, whatever the external state and the event.
C4_ShouldRunNeverRaises ==
  (call.fn = "should_run" /\ call.outcome /= Reading) =>
    /\ call.outcome.kind = "return"
    /\ call.outcome.value \in BOOLEAN

\* C4 amended: should_run() ends with True or False, except that it raises
\* for PublishBinaryPackages exactly when a Linux platform is 'not_built',
\* for PublishSourceTarball exactly when the version is not a nightly and
\* 'source' or 'source_gpg' is 'not_built', and for PublishDockerImages
\* exactly when a request it makes to the registry fails, and for
\* MakeSourceTarball exactly when the listing of the bucket fails; no other
\* activity ever raises.
C4_ShouldRunBoolOrUnbuilt ==
  (call.fn = "should_run" /\ call.outcome /= Reading) =>
    /\ call.outcome.kind \in {"return", "raise"}
    /\ call.outcome.kind = "return" => call.outcome.value \in BOOLEAN
    /\ (call.outcome.kind = "raise") <=>
         \/ call.self.cls = "PublishBinaryPackages" /\ UnbuiltLinux
         \/ /\ call.self.cls = "PublishSourceTarball"
            /\ call.self.event.version \notin NightlyVersions
            /\ UnbuiltSource
         \/ call.self.cls = "MakeSourceTarball" /\ ~s3_keys.ok
         \/ /\ call.self.cls = "PublishDockerImages"
            /\ \E k \in DOMAIN call.reads : call.reads[k].kind = "raise"

\* C4 witness: PublishSourceTarball.should_run() raised for a release whose
\* 'source_gpg' is 'not_built' while 'source' is published.
C4_Witness ==
  /\ call.fn = "should_run"
  /\ call.self.cls = "PublishSourceTarball"
  /\ call.self.event.version \in ReleaseVersions
  /\ statuses["source"] = "succeeded"
  /\ statuses["source_gpg"] = "not_built"
  /\ call.outcome.kind = "raise"

\* C7: platforms_to_build() is exactly the set of keys p of
\* Config.macos_versions that buildInput.platforms lists (or it lists nothing)
\* and that the build statuses contain with a status other than 'succeeded';
\* so it is a subset of those keys, it is empty when a non-empty
\* buildInput.platforms names no macOS platform, and should_run() is True
\* exactly when it is not empty.
C7_PlatformsToBuild ==
  (call.fn \in {"platforms_to_build", "should_run"}
     /\ call.self.cls = "BuildAndPublishMacOS") =>
    LET asked == call.self.event.buildInput.platforms
        expected ==
          {p \in DOMAIN macos_versions :
             /\ asked = {} \/ p \in asked
             /\ statuses[p] \in Status \ {"succeeded"}}
    IN IF call.fn = "platforms_to_build"
       THEN /\ call.outcome = Return(expected)
            /\ call.outcome.value \subseteq DOMAIN macos_versions
            /\ (asked /= {} /\ asked \cap DOMAIN macos_versions = {})
                 => call.outcome.value = {}
       ELSE call.outcome = Return(expected /= {})

\* C7 witness: buildInput.platforms names only a Linux platform, both macOS
\* platforms are unbuilt, and platforms_to_build() returned the empty set.
C7_Witness ==
  /\ call.fn = "platforms_to_build"
  /\ call.self.event.buildInput.platforms = {"ubuntu-18.04"}
  /\ \A p \in DOMAIN macos_versions : statuses[p] = "not_built"
  /\ call.outcome = Return({})

\* C8: PublishBinaryPackages.should_run() raises exactly when a Linux platform
\* is 'not_built'; otherwise it returns whether a Linux platform is
\* 'built_not_published'; the statuses of the other platforms play no part.
C8_PublishDecidesFromLinux ==
  (call.fn = "should_run" /\ call.self.cls = "PublishBinaryPackages") =>
    /\ (call.outcome.kind = "raise") <=> UnbuiltLinux
    /\ ~UnbuiltLinux =>
         call.outcome =
           Return(WithStatus(LinuxPlatforms, "built_not_published") /= {})

\* C8 witness: a macOS platform is 'not_built' and 'source' waits for
\* publication, no Linux platform does, and should_run() returned False.
C8_Witness ==
  /\ call.fn = "should_run"
  /\ call.self.cls = "PublishBinaryPackages"
  /\ statuses["macos-mojave"] = "not_built"
  /\ statuses["source"] = "built_not_published"
  /\ \A p \in LinuxPlatforms : statuses[p] = "succeeded"
  /\ call.outcome = Return(FALSE)

\* C9: PublishSourceTarball.should_run() returns False for a nightly whatever
\* the statuses are, without raising; for another version it raises exactly
\* when 'source' or 'source_gpg' is 'not_built', and otherwise returns whether
\* one of the two is 'built_not_published'; no other platform plays a part.
C9_PublishSourceTarball ==
  (call.fn = "should_run" /\ call.self.cls = "PublishSourceTarball") =>
    IF call.self.event.version \in NightlyVersions
    THEN call.outcome = Return(FALSE)
    ELSE /\ (call.outcome.kind = "raise") <=> UnbuiltSource
         /\ ~UnbuiltSource =>
              call.outcome =
                Return(WithStatus(SourcePlatforms, "built_not_published") /= {})

\* C9 witness: the version is a nightly, 'source' is 'not_built', and
\* should_run() returned False.
C9_Witness ==
  /\ call.fn = "should_run"
  /\ call.self.cls = "PublishSourceTarball"
  /\ call.self.event.version \in NightlyVersions
  /\ statuses["source"] = "not_built"
  /\ call.outcome = Return(FALSE)

\* --------------------------------------- the caller: check, then launch
\* One invocation of the caller for an activity and an event. It asks
\* should_run(), then needs_ec2_worker(), launches an instance from
\* ec2_params(), and asks task_env() for the task's environment. Each call
\* queries the external state anew, and other invocations and the outside
\* world act in between.
Start(i, c, v, p, asked) ==
  /\ inv[i].pc = "idle"
  /\ inv' = [inv EXCEPT ![i] =
               [pc |-> "decide",
                self |-> NewActivity(c, Event(v, p, asked, FALSE)),
                ran |-> NoOutcome, env |-> NoOutcome]]
  /\ UNCHANGED <<statuses, s3_keys, docker_tags, instances, call>>

ShouldRun(i) ==
  /\ inv[i].pc = "decide"
  /\ LET r == should_run(inv[i].self, statuses, s3_keys, docker_tags)
     IN inv' = [inv EXCEPT ![i].ran = r,
                           ![i].pc = IF r = Reading THEN "decide_or"
                                     ELSE IF r.kind = "raise" THEN "failed"
                                     ELSE IF r.value THEN "gate" ELSE "done"]
  /\ UNCHANGED <<statuses, s3_keys, docker_tags, instances, call>>

\* The second request of PublishDockerImages.should_run(); the invocations of
\* the specifications below are of the other activities and never wait here.
ShouldRunOr(i) ==
  /\ inv[i].pc = "decide_or"
  /\ LET r == PublishDockerImages_should_run_or(inv[i].self, docker_tags)
     IN inv' = [inv EXCEPT ![i].ran = r,
                           ![i].pc = IF r.kind = "raise" THEN "failed"
                                     ELSE IF r.value THEN "gate" ELSE "done"]
  /\ UNCHANGED <<statuses, s3_keys, docker_tags, instances, call>>

NeedsEc2Worker(i) ==
  /\ inv[i].pc = "gate"
  /\ inv' = [inv EXCEPT ![i].pc =
               IF needs_ec2_worker(inv[i].self, instances)
               THEN "launch" ELSE "task"]
  /\ UNCHANGED <<statuses, s3_keys, docker_tags, instances, call>>

RunInstances(i) ==
  /\ inv[i].pc = "launch"
  /\ LET params == ec2_params(inv[i].self)
     IN IF params.kind = "raise"
        THEN /\ inv' = [inv EXCEPT ![i].pc = "failed"]
             /\ UNCHANGED instances
        ELSE /\ \E n \in params.value.MinCount .. params.value.MaxCount :
                  instances' =
                    run_instances(instances, params.value, inv[i].self, n)
             /\ inv' = [inv EXCEPT ![i].pc = "task"]
  /\ UNCHANGED <<statuses, s3_keys, docker_tags, call>>

TaskEnv(i) ==
  /\ inv[i].pc = "task"
  /\ LET e == task_env(inv[i].self, statuses)
     IN inv' = [inv EXCEPT ![i].env = e,
                           ![i].pc = IF e.kind = "raise" THEN "failed"
                                     ELSE "done"]
  /\ UNCHANGED <<statuses, s3_keys, docker_tags, instances, call>>

Steps ==
  \E i \in 1..NumInvocations :
    ShouldRun(i) \/ NeedsEc2Worker(i) \/ RunInstances(i) \/ TaskEnv(i)

\* The outside world: a build or a publication of platform p completes. A
\* status that has left 'not_built' never returns to it.
StatusAdvance(p) ==
  /\ statuses[p] \in {"not_built", "built_not_published"}
  /\ statuses' = [statuses EXCEPT ![p] =
                    IF statuses[p] = "not_built"
                    THEN "built_not_published" ELSE "succeeded"]
  /\ UNCHANGED <<s3_keys, docker_tags, instances, call, inv>>

\* The invocations that have been given an activity.
Started == {i \in 1..NumInvocations : inv[i].pc /= "idle"}

\* ------------------------------ publishing the binary packages (SpecMutex)
\* The Linux packages are built and wait for publication.
InitMutex ==
  /\ statuses = [p \in Platforms |->
                   IF is_linux(p) THEN "built_not_published" ELSE "succeeded"]
  /\ s3_keys = NoKeys
  /\ docker_tags = NoTags
  /\ instances = << >>
  /\ call = NoCall
  /\ inv = NoInvocations

NextMutex ==
  \/ \E i \in 1..NumInvocations, v \in Versions :
       Start(i, "PublishBinaryPackages", v, "ubuntu-18.04", {})
  \/ Steps
  \/ EC2
  \/ \E p \in LinuxPlatforms : StatusAdvance(p)

SpecMutex == InitMutex /\ [][NextMutex]_vars

\* C3: at most one instance tagged with the ActivityArn of
\* PublishBinaryPackages is pending or running, in every reachable state of
\* interleaved check-then-launch sequences.
C3_OnePublishWorker ==
  Cardinality(
    {k \in DOMAIN instances :
       MatchesFilter(instances[k],
                     ClassAttrs("PublishBinaryPackages").activity_arn)}) <= 1

\* ------------------------------------ building binary packages (SpecBuild)
InitBuild ==
  /\ statuses = [p \in Platforms |->
                   IF is_linux(p) THEN "not_built" ELSE "succeeded"]
  /\ s3_keys = NoKeys
  /\ docker_tags = NoTags
  /\ instances = << >>
  /\ call = NoCall
  /\ inv = NoInvocations

NextBuild ==
  \/ \E i \in 1..NumInvocations, p \in LinuxPlatforms :
       Start(i, "MakeBinaryPackage", "4.0.1", p, {})
  \/ Steps
  \/ EC2
  \/ \E p \in LinuxPlatforms : StatusAdvance(p)

SpecBuild == InitBuild /\ [][NextBuild]_vars

\* The step in which invocation i gets the answer of should_run().
Decides(i) == inv[i].pc = "decide" /\ inv'[i].pc /= "decide"
\* The step in which invocation i launches a worker.
Launches(i) == inv[i].pc = "launch" /\ Len(instances') > Len(instances)

\* C5 as stated: once the status of (version, platform) has left 'not_built',
\* no further worker is launched for that pair.
C5_NoLaunchOnceBuilt ==
  [][\A i \in Started :
       Launches(i) => statuses[platform(inv[i].self)] = "not_built"]_vars

\* C5 amended: should_run() returns True exactly when the status of (version,
\* platform) is 'not_built' at the time of the call, so a call made after the
\* status has left 'not_built' returns False and its invocation launches
\* nothing; a worker is launched only by an invocation whose own should_run()
\* returned True, which may have been before the status changed.
C5_DoneIsNoOp ==
  [][\A i \in Started :
       /\ Decides(i) =>
            /\ inv'[i].ran =
                 Return(statuses[platform(inv[i].self)] = "not_built")
            /\ statuses[platform(inv[i].self)] /= "not_built" =>
                 inv'[i].pc = "done"
       /\ inv[i].pc = "done" => inv'[i] = inv[i]
       /\ Launches(i) => inv[i].ran = Return(TRUE)
       /\ (Len(instances') > Len(instances)) =>
            \E j \in Started : Launches(j)]_vars

\* C5 witness: a worker launched for a platform is running, the platform is
\* built, and a later should_run() for it returned False and launched nothing.
C5_Witness ==
  \E i \in Started :
    /\ inv[i].pc = "done"
    /\ inv[i].ran = Return(FALSE)
    /\ statuses[platform(inv[i].self)] = "built_not_published"
    /\ \E k \in DOMAIN instances :
         /\ instances[k].by = "MakeBinaryPackage"
         /\ instances[k].for = <<"4.0.1", platform(inv[i].self)>>
         /\ instances[k].state = "running"

\* ------------------------------------------ the macOS builds (SpecMac)
InitMac ==
  /\ statuses = [p \in Platforms |->
                   IF p \in DOMAIN macos_versions THEN "not_built"
                   ELSE "succeeded"]
  /\ s3_keys = NoKeys
  /\ docker_tags = NoTags
  /\ instances = << >>
  /\ call = NoCall
  /\ inv = NoInvocations

NextMac ==
  \/ \E i \in 1..NumInvocations, asked \in RequestedPlatforms :
       Start(i, "BuildAndPublishMacOS", "4.0.1", "ubuntu-18.04", asked)
  \/ Steps
  \/ EC2
  \/ \E p \in DOMAIN macos_versions : StatusAdvance(p)

SpecMac == InitMac /\ [][NextMac]_vars

\* C6: with at most 2 macOS versions configured and should_run() having
\* returned True, task_env() does not raise, whatever happened to the build
\* statuses in between: it returns {} or {'PLATFORM': macos_versions[p]}.
C6_TaskEnvCannotRaise ==
  \A i \in Started :
    (/\ inv[i].self.cls = "BuildAndPublishMacOS"
     /\ Cardinality(DOMAIN macos_versions) <= 2
     /\ inv[i].ran = Return(TRUE)
     /\ inv[i].env /= NoOutcome) =>
      /\ inv[i].env.kind = "return"
      /\ \/ DOMAIN inv[i].env.value = {}
         \/ \E p \in DOMAIN macos_versions :
              inv[i].env.value = [PLATFORM |-> macos_versions[p]]

====
